---- MODULE Spec2Model ----
(***************************************************************************)
(* s3-copy: main() builds an s3Uploader and walks the current directory    *)
(* with filepath.WalkDir, handing every entry to the callback returned by  *)
(* createUploadFunc.  Strings that the code takes apart (paths, file       *)
(* extensions, file contents, error messages) are sequences of characters  *)
(* or of message fragments; a nil error is the empty sequence.             *)
(***************************************************************************)
EXTENDS Integers, Sequences, FiniteSets, TLC

VARIABLES
    pc,          \* position of main: "main", "walk", "opened", "uploaded", "done", "fatal"
    appVersion,  \* -app-version flag
    bucket,      \* -bucket flag
    haveCreds,   \* both AWS_ACCESS_KEY_ID and AWS_SECRET_ACCESS_KEY are set
    tree,        \* the directory tree on disk: directory path -> sorted listing
    s3,          \* the s3Uploader value built by main
    todo,        \* entries filepath.WalkDir has still to hand to the callback
    cur,         \* frame of the callback invocation in progress
    trace,       \* everything the callback invocations did, in order
    received,    \* the uploadObjects handed to uploader.Upload
    s3Calls,     \* the UploadInputs handed to the base S3 client
    store,       \* the remote bucket: set of stored objects, one per key
    walkErr      \* the error filepath.WalkDir is about to return, nil if none

vars == <<pc, appVersion, bucket, haveCreds, tree, s3, todo, cur, trace,
          received, s3Calls, store, walkErr>>

----------------------------------------------------------------------------
(* Bounds *)

\* largest number of entries of one directory listing
MaxEntries == 2

----------------------------------------------------------------------------
(* Errors: a message is a sequence of fragments, nil is the empty one *)

Nil == <<>>

LstatErr == <<"lstat ./: no such file or directory">>
ReadDirErr == <<"open: permission denied">>
OpenErr == <<"can't be opened">>
BaseUploadErrs == {<<"AccessDenied">>, <<"RequestError">>}

\* fmt.Errorf("could not walk %s: %v", path, err)
walkError(path, err) == <<"could not walk ">> \o path \o <<": ">> \o err

\* fmt.Errorf("could not open %s for reading: %v", path, err)
openError(path, err) == <<"could not open ">> \o path \o <<" for reading: ">> \o err

\* fmt.Errorf("failed to upload %s: %v", path, err)
uploadError(path, err) == <<"failed to upload ">> \o path \o <<": ">> \o err

\* fmt.Errorf("failed to upload to S3: %v", err)
s3Error(err) == <<"failed to upload to S3: ">> \o err

----------------------------------------------------------------------------
(* The tree on disk *)

Root == <<".", "/">>
AppDir == <<"a", "p", "p">>
SubDir == <<"a", "p", "p", "/", "s", "u", "b", ".", "j", "s">>
DirPaths == {Root, AppDir, SubDir}

RootCands == <<
    [name |-> <<"A", ".", "T", "X", "T">>, dir |-> FALSE],
    [name |-> <<"M", "a", "k", "e", "f", "i", "l", "e">>, dir |-> FALSE],
    [name |-> <<"a", "p", "p">>, dir |-> TRUE],
    [name |-> <<"f", "o", "o", ".", "t", "x", "t">>, dir |-> FALSE] >>

AppCands == <<
    [name |-> <<"i", "n", "d", "e", "x", ".", "j", "s">>, dir |-> FALSE],
    [name |-> <<"s", "u", "b", ".", "j", "s">>, dir |-> TRUE] >>

SubCands == <<
    [name |-> <<"d", "a", "t", "a">>, dir |-> FALSE] >>

SomeBody == <<"s", "o", "m", "e", " ", "b", "o", "d", "y">>
LetFoo == <<"l", "e", "t", " ", "f", "o", "o", " ", "=", " ", "'", "b", "a", "r", "'", ";">>

\* the bytes of the file at a path
Content(path) ==
    CASE path = <<"f", "o", "o", ".", "t", "x", "t">> -> SomeBody
      [] path = <<"a", "p", "p", "/", "i", "n", "d", "e", "x", ".", "j", "s">> -> LetFoo
      [] path = <<"A", ".", "T", "X", "T">> -> <<"H", "I">>
      [] path = SubDir \o <<"/", "d", "a", "t", "a">> -> <<"0", "1">>
      [] OTHER -> <<>>

RECURSIVE Pick(_, _, _)
\* the entries of s at the positions in S, from position i on, in order
Pick(s, S, i) ==
    IF i > Len(s) THEN <<>>
    ELSE IF i \in S THEN <<s[i]>> \o Pick(s, S, i + 1)
    ELSE Pick(s, S, i + 1)

\* the sorted listings a directory can have, given the names that may be in it
Listings(cands) ==
    {Pick(cands, S, 1) : S \in {T \in SUBSET (1 .. Len(cands)) : Cardinality(T) <= MaxEntries}}

HasDir(listing, name) == \E i \in 1 .. Len(listing) : listing[i].name = name /\ listing[i].dir

Trees ==
    {t \in [DirPaths -> Listings(RootCands) \cup Listings(AppCands) \cup Listings(SubCands)] :
        /\ t[Root] \in Listings(RootCands)
        /\ t[AppDir] \in (IF HasDir(t[Root], AppDir) THEN Listings(AppCands) ELSE {<<>>})
        /\ t[SubDir] \in (IF HasDir(t[AppDir], <<"s", "u", "b", ".", "j", "s">>)
                          THEN Listings(SubCands) ELSE {<<>>})}

----------------------------------------------------------------------------
(* Paths, extensions and content types *)

\* filepath.Join(dir, name) as WalkDir uses it: Clean drops the leading "./"
Join(dir, name) == IF dir = Root THEN name ELSE dir \o <<"/">> \o name

RECURSIVE ExtFrom(_, _)
\* filepath.Ext scans back from the end to the last dot of the last element
ExtFrom(path, i) ==
    IF i < 1 \/ path[i] = "/" THEN <<>>
    ELSE IF path[i] = "." THEN SubSeq(path, i, Len(path))
    ELSE ExtFrom(path, i - 1)

\* filepath.Ext(path)
Ext(path) == ExtFrom(path, Len(path))

UpperCase == <<"A", "B", "C", "D", "E", "F", "G", "H", "I", "J", "K", "L", "M",
               "N", "O", "P", "Q", "R", "S", "T", "U", "V", "W", "X", "Y", "Z">>
LowerCase == <<"a", "b", "c", "d", "e", "f", "g", "h", "i", "j", "k", "l", "m",
               "n", "o", "p", "q", "r", "s", "t", "u", "v", "w", "x", "y", "z">>

\* ASCII lower-casing of one character
ToLower(c) ==
    IF \E i \in 1 .. 26 : UpperCase[i] = c
    THEN LowerCase[CHOOSE i \in 1 .. 26 : UpperCase[i] = c]
    ELSE c

DotTxt == <<".", "t", "x", "t">>
DotJs == <<".", "j", "s">>

\* the extension table, for the extensions the tree can hold
MimeTable(ext) ==
    CASE ext = DotTxt -> "text/plain; charset=utf-8"
      [] ext = DotJs -> "application/javascript"
      [] OTHER -> ""

\* mime.TypeByExtension: looked up as written, then lower-cased
TypeByExtension(ext) ==
    IF MimeTable(ext) # "" THEN MimeTable(ext)
    ELSE MimeTable([i \in 1 .. Len(ext) |-> ToLower(ext[i])])

\* the content type looked up for the whole path instead of its extension
contentTypeOf_wholePath(path) == TypeByExtension(path)

\* extension := filepath.Ext(path); contentType := mime.TypeByExtension(extension)
contentTypeOf(path) == TypeByExtension(Ext(path))

----------------------------------------------------------------------------
(* The uploader *)

AppVersionKey == "x-amz-meta-app-version"
PublicRead == "public-read"
EmptyTags == [k \in {} |-> ""]

\* newS3Uploader(client, bucket, fileACL)
newS3Uploader(b, acl) == [bucket |-> b, fileACL |-> acl, Tags |-> EmptyTags]

\* the tag set even for an empty version
mainTags_always(u, version) == [u EXCEPT !.Tags = [k \in {AppVersionKey} |-> version]]

\* if appVersion != "" { s3Uploader.Tags["x-amz-meta-app-version"] = ... }
mainTags(u, version) ==
    IF version # "" THEN [u EXCEPT !.Tags = [k \in {AppVersionKey} |-> version]] ELSE u

NoFile == [fd |-> 0, data |-> <<>>, pos |-> 0]

\* the body handed on after its first byte was read
newUploadObject_sniffed(path, file, contentType) ==
    [Path |-> path,
     Body |-> [file EXCEPT !.pos = IF Len(file.data) > 0 THEN 1 ELSE 0],
     ContentType |-> contentType]

\* &uploadObject{Path: path, Body: file, ContentType: contentType}
newUploadObject(path, file, contentType) ==
    [Path |-> path, Body |-> file, ContentType |-> contentType]

\* the s3manager.UploadInput that s3Uploader.Upload builds
s3UploadInput(s, object) ==
    [Bucket |-> s.bucket, Key |-> object.Path, ACL |-> s.fileACL, Body |-> object.Body,
     ContentType |-> object.ContentType, Metadata |-> s.Tags]

\* s3Uploader.Upload's result for the base client's result
s3UploadResult(baseErr) == IF baseErr # Nil THEN s3Error(baseErr) ELSE Nil

\* io.ReadAll of a stream: what is left after the read offset
ReadAll(stream) == SubSeq(stream.data, stream.pos + 1, Len(stream.data))

\* the bucket after the base client stored the input: one object per key
Put(objects, input) ==
    {o \in objects : o.Key # input.Key} \cup
    {[Key |-> input.Key, Bucket |-> input.Bucket, ACL |-> input.ACL,
      Bytes |-> ReadAll(input.Body), ContentType |-> input.ContentType,
      Metadata |-> input.Metadata]}

----------------------------------------------------------------------------
(* The callback of createUploadFunc, in three pieces *)

Event(n, ev, path, err, fd) == [n |-> n, ev |-> ev, path |-> path, err |-> err, fd |-> fd]

NoFrame == [n |-> 0, path |-> <<>>, contentType |-> "", file |-> NoFile, err |-> Nil]

\* the error of fsys.Open dropped
uploadFuncOpen_ignoreErr(n, item, openOk, fd) ==
    [events |-> <<Event(n, "open", item.path, IF openOk THEN Nil ELSE OpenErr,
                        IF openOk THEN fd ELSE 0)>>,
     returned |-> FALSE, err |-> Nil,
     frame |-> [n |-> n, path |-> item.path, contentType |-> contentTypeOf(item.path),
                file |-> IF openOk THEN [fd |-> fd, data |-> Content(item.path), pos |-> 0]
                         ELSE NoFile,
                err |-> Nil]]

\* fsys.Open(path) and what follows it up to the Upload call
uploadFuncOpen(n, item, openOk, fd) ==
    IF ~openOk
    THEN [events |-> <<Event(n, "open", item.path, OpenErr, 0)>>,
          returned |-> TRUE, err |-> openError(item.path, OpenErr), frame |-> NoFrame]
    ELSE [events |-> <<Event(n, "open", item.path, Nil, fd)>>,
          returned |-> FALSE, err |-> Nil,
          frame |-> [n |-> n, path |-> item.path, contentType |-> contentTypeOf(item.path),
                     file |-> [fd |-> fd, data |-> Content(item.path), pos |-> 0],
                     err |-> Nil]]

\* directories not skipped
uploadFuncEntry_noDirCheck(n, item, openOk, fd) ==
    LET r == uploadFuncOpen(n, item, openOk, fd)
    IN  [r EXCEPT !.events = <<Event(n, "isdir", item.path, Nil, 0)>> \o r.events]

\* files of unknown content type skipped like directories
uploadFuncEntry_skipUnknown(n, item, openOk, fd) ==
    IF item.dir \/ contentTypeOf(item.path) = ""
    THEN [events |-> <<Event(n, "isdir", item.path, Nil, 0),
                       Event(n, "logdir", item.path, Nil, 0)>>,
          returned |-> TRUE, err |-> Nil, frame |-> NoFrame]
    ELSE LET r == uploadFuncOpen(n, item, openOk, fd)
         IN  [r EXCEPT !.events = <<Event(n, "isdir", item.path, Nil, 0)>> \o r.events]

\* if entry.IsDir() { log; return nil } and the rest of the callback
uploadFuncEntry(n, item, openOk, fd) ==
    IF item.dir
    THEN [events |-> <<Event(n, "isdir", item.path, Nil, 0),
                       Event(n, "logdir", item.path, Nil, 0)>>,
          returned |-> TRUE, err |-> Nil, frame |-> NoFrame]
    ELSE LET r == uploadFuncOpen(n, item, openOk, fd)
         IN  [r EXCEPT !.events = <<Event(n, "isdir", item.path, Nil, 0)>> \o r.events]

\* the walk's error not looked at
uploadFunc_noErrCheck(n, item, openOk, fd) == uploadFuncEntry(n, item, openOk, fd)

\* the callback from its entry: if err != nil { return could not walk }
uploadFunc(n, item, openOk, fd) ==
    IF item.err # Nil
    THEN [events |-> <<>>, returned |-> TRUE, err |-> walkError(item.path, item.err),
          frame |-> NoFrame]
    ELSE uploadFuncEntry(n, item, openOk, fd)

\* the upload error logged over: every upload counts as done
uploadFuncExit_swallow(n, path, fd, err) ==
    [events |-> <<Event(n, "loguploaded", path, Nil, 0),
                  Event(n, "close", path, Nil, fd)>>, err |-> Nil]

\* Close called on the success path only, not deferred
uploadFuncExit_noCloseOnError(n, path, fd, err) ==
    IF err # Nil
    THEN [events |-> <<>>, err |-> uploadError(path, err)]
    ELSE [events |-> <<Event(n, "loguploaded", path, Nil, 0),
                       Event(n, "close", path, Nil, fd)>>, err |-> Nil]

\* after client.Upload returned: wrap the error or log, then the deferred Close
uploadFuncExit(n, path, fd, err) ==
    IF err # Nil
    THEN [events |-> <<Event(n, "close", path, Nil, fd)>>, err |-> uploadError(path, err)]
    ELSE [events |-> <<Event(n, "loguploaded", path, Nil, 0),
                       Event(n, "close", path, Nil, fd)>>, err |-> Nil]

----------------------------------------------------------------------------
(* filepath.WalkDir and main *)

\* the entries of a directory as walkDir hands them on
Children(t, path) ==
    [i \in 1 .. Len(t[path]) |->
        [path |-> Join(path, t[path][i].name), dir |-> t[path][i].dir, err |-> Nil]]

\* what walkDir does after the callback returned nil for an entry
walkDirAfter(t, item, readOk, rest) ==
    IF item.err # Nil \/ ~item.dir THEN rest
    ELSE IF ~readOk THEN <<[item EXCEPT !.err = ReadDirErr]>> \o rest
    ELSE Children(t, item.path) \o rest

\* the result of filepath.WalkDir dropped
mainExit_ignore(err) == "done"

\* if err := filepath.WalkDir(...); err != nil { log.Fatal(...) }
mainExit(err) == IF err # Nil THEN "fatal" ELSE "done"

----------------------------------------------------------------------------
(* The program *)

\* number of callback invocations so far
NumCalls == Cardinality({trace[i].n : i \in DOMAIN trace})

\* number of files opened so far
NumOpens == Cardinality({i \in DOMAIN trace : trace[i].ev = "open" /\ trace[i].fd # 0})

Init ==
    /\ pc = "main"
    /\ appVersion \in {"", "1.2.3"}
    /\ bucket = "my-space"
    /\ haveCreds \in BOOLEAN
    /\ tree \in Trees
    /\ s3 = newS3Uploader("", "")
    /\ todo = <<>>
    /\ cur = NoFrame
    /\ trace = <<>>
    /\ received = <<>>
    /\ s3Calls = <<>>
    /\ store = {}
    /\ walkErr = Nil

\* main up to the first step of filepath.WalkDir (the Lstat of the root)
Main ==
    /\ pc = "main"
    /\ IF ~haveCreds
       THEN /\ pc' = "fatal"
            /\ UNCHANGED <<s3, todo>>
       ELSE /\ pc' = "walk"
            /\ s3' = mainTags(newS3Uploader(bucket, PublicRead), appVersion)
            /\ \E lstatOk \in BOOLEAN :
                 todo' = <<[path |-> Root, dir |-> lstatOk,
                            err |-> IF lstatOk THEN Nil ELSE LstatErr]>>
    /\ UNCHANGED <<appVersion, bucket, haveCreds, tree, cur, trace, received,
                   s3Calls, store, walkErr>>

\* WalkDir hands the next entry to the callback, which runs up to its Upload call
\* or returns; on a return WalkDir goes on (reading a directory) or gives up
WalkStep ==
    /\ pc = "walk"
    /\ todo # <<>>
    /\ \E openOk \in BOOLEAN, readOk \in BOOLEAN :
         LET item == Head(todo)
             n == NumCalls + 1
             r == uploadFunc(n, item, openOk, NumOpens + 1)
             call == Event(n, IF item.dir THEN "calldir" ELSE "call", item.path, item.err, 0)
         IN  IF r.returned
             THEN /\ trace' = trace \o <<call>> \o r.events
                                    \o <<Event(n, "return", item.path, r.err, 0)>>
                  /\ cur' = NoFrame
                  /\ pc' = "walk"
                  /\ walkErr' = r.err
                  /\ todo' = IF r.err # Nil THEN <<>>
                             ELSE walkDirAfter(tree, item, readOk, Tail(todo))
             ELSE /\ trace' = trace \o <<call>> \o r.events
                  /\ cur' = r.frame
                  /\ pc' = "opened"
                  /\ UNCHANGED <<todo, walkErr>>
    /\ UNCHANGED <<appVersion, bucket, haveCreds, tree, s3, received, s3Calls, store>>

\* client.Upload(&uploadObject{...}): s3Uploader.Upload and the base client's answer
Upload ==
    /\ pc = "opened"
    /\ \E baseErr \in {Nil} \cup BaseUploadErrs :
         LET object == newUploadObject(cur.path, cur.file, cur.contentType)
             input == s3UploadInput(s3, object)
             err == s3UploadResult(baseErr)
         IN  /\ received' = Append(received, [n |-> cur.n, object |-> object])
             /\ s3Calls' = Append(s3Calls, [n |-> cur.n, input |-> input])
             /\ store' = IF baseErr = Nil THEN Put(store, input) ELSE store
             /\ trace' = trace \o <<Event(cur.n, "upload", object.Path, Nil, object.Body.fd),
                                    Event(cur.n, "uploadret", object.Path, err, 0)>>
             /\ cur' = [cur EXCEPT !.err = err]
    /\ pc' = "uploaded"
    /\ UNCHANGED <<appVersion, bucket, haveCreds, tree, s3, todo, walkErr>>

\* the callback from the return of Upload to its own return, and WalkDir's next step
CallbackReturn ==
    /\ pc = "uploaded"
    /\ LET r == uploadFuncExit(cur.n, cur.path, cur.file.fd, cur.err)
       IN  /\ trace' = trace \o r.events \o <<Event(cur.n, "return", cur.path, r.err, 0)>>
           /\ walkErr' = r.err
           /\ todo' = IF r.err # Nil THEN <<>> ELSE Tail(todo)
    /\ cur' = NoFrame
    /\ pc' = "walk"
    /\ UNCHANGED <<appVersion, bucket, haveCreds, tree, s3, received, s3Calls, store>>

\* filepath.WalkDir returns and main ends
WalkReturn ==
    /\ pc = "walk"
    /\ todo = <<>>
    /\ pc' = mainExit(walkErr)
    /\ UNCHANGED <<appVersion, bucket, haveCreds, tree, s3, todo, cur, trace, received,
                   s3Calls, store, walkErr>>

Next == Main \/ WalkStep \/ Upload \/ CallbackReturn \/ WalkReturn

Spec == Init /\ [][Next]_vars

----------------------------------------------------------------------------
(* Reading the trace *)

Calls == 1 .. NumCalls

\* positions in the trace of the events of one kind of invocation n
Idx(n, kind) == {i \in DOMAIN trace : trace[i].n = n /\ trace[i].ev = kind}

Has(n, kind) == Idx(n, kind) # {}

\* the one event of a kind of invocation n
The(n, kind) == trace[CHOOSE i \in Idx(n, kind) : TRUE]

IsDirCall(n) == Has(n, "calldir") /\ The(n, "calldir").err = Nil
IsFileCall(n) == Has(n, "call") /\ The(n, "call").err = Nil
IsErrCall(n) ==
    \/ Has(n, "call") /\ The(n, "call").err # Nil
    \/ Has(n, "calldir") /\ The(n, "calldir").err # Nil

\* the entry handed to invocation n
CallOf(n) == IF Has(n, "call") THEN The(n, "call") ELSE The(n, "calldir")

ReceivedBy(n) == {i \in DOMAIN received : received[i].n = n}

FilesIn(t, d) == {Join(d, t[d][i].name) : i \in {j \in 1 .. Len(t[d]) : ~t[d][j].dir}}

\* the paths of the files of a tree
TreeFiles(t) == UNION {FilesIn(t, d) : d \in DirPaths}

FooTxt == <<"f", "o", "o", ".", "t", "x", "t">>
IndexJs == <<"a", "p", "p", "/", "i", "n", "d", "e", "x", ".", "j", "s">>
Makefile == <<"M", "a", "k", "e", "f", "i", "l", "e">>
SubData == SubDir \o <<"/", "d", "a", "t", "a">>

\* some invocation returned an error
Failed == \E i \in DOMAIN trace : trace[i].ev = "return" /\ trace[i].err # Nil

----------------------------------------------------------------------------
(* Claims *)

\* C1: for every directory entry handed over without an access error the
\* callback returns nil, opens no file and never invokes Upload.
C1_DirectoriesSkipped ==
    \A n \in Calls :
        IsDirCall(n) =>
            /\ Has(n, "return") /\ The(n, "return").err = Nil
            /\ ~Has(n, "open")
            /\ ~Has(n, "upload")
            /\ ReceivedBy(n) = {}

C1_Witness ==
    \E n \in Calls : IsDirCall(n) /\ CallOf(n).path = SubDir /\ Has(n, "return")

\* C2: a file that opens and uploads without error reaches the uploader as
\* exactly one uploadObject with the callback's path and the content type of
\* the path's extension (empty when unknown or missing); the callback returns nil.
C2_ObjectPathAndType ==
    \A n \in Calls :
        (IsFileCall(n) /\ Has(n, "uploadret") /\ The(n, "uploadret").err = Nil
                       /\ Has(n, "return")) =>
            /\ Cardinality(ReceivedBy(n)) = 1
            /\ \A i \in ReceivedBy(n) :
                 LET o == received[i].object
                 IN  /\ o.Path = CallOf(n).path
                     /\ o.ContentType = TypeByExtension(Ext(CallOf(n).path))
                     /\ o.Path = FooTxt => o.ContentType = "text/plain; charset=utf-8"
                     /\ o.Path = IndexJs => o.ContentType = "application/javascript"
                     /\ o.Path \in {Makefile, SubData} => o.ContentType = ""
            /\ The(n, "return").err = Nil

C2_Witness ==
    /\ \E i \in DOMAIN received : received[i].object.Path = IndexJs
    /\ \E n \in Calls : /\ IsFileCall(n) /\ CallOf(n).path = SubData
                        /\ Has(n, "uploadret") /\ The(n, "uploadret").err = Nil
                        /\ Has(n, "return")

\* C3: an entry handed over with an access error makes the callback return
\* the error wrapped with the path, without looking at the entry, opening a
\* file or invoking Upload.
C3_WalkErrorPropagated ==
    \A n \in Calls :
        IsErrCall(n) =>
            /\ Has(n, "return")
            /\ The(n, "return").err # Nil
            /\ The(n, "return").err = walkError(CallOf(n).path, CallOf(n).err)
            /\ ~Has(n, "isdir")
            /\ ~Has(n, "open")
            /\ ~Has(n, "upload")
            /\ ReceivedBy(n) = {}

C3_Witness ==
    \E n \in Calls : IsErrCall(n) /\ CallOf(n).path = AppDir /\ Has(n, "return")

\* C4: a file that fails to open makes the callback return the error wrapped
\* with the path, and Upload is never invoked for it.
C4_OpenErrorPropagated ==
    \A n \in Calls :
        (Has(n, "open") /\ The(n, "open").err # Nil) =>
            /\ Has(n, "return")
            /\ The(n, "return").err # Nil
            /\ The(n, "return").err = openError(CallOf(n).path, The(n, "open").err)
            /\ ~Has(n, "upload")
            /\ ReceivedBy(n) = {}

C4_Witness ==
    \E n \in Calls : /\ Has(n, "open") /\ The(n, "open").err # Nil
                     /\ CallOf(n).path = IndexJs /\ Has(n, "return")

\* C5: when Upload returns an error the callback returns that error wrapped
\* with the path, and logs no 'Uploaded <path>' for the entry.
C5_UploadErrorPropagated ==
    \A n \in Calls :
        (Has(n, "uploadret") /\ The(n, "uploadret").err # Nil) =>
            /\ ~Has(n, "loguploaded")
            /\ Has(n, "return") =>
                 /\ The(n, "return").err # Nil
                 /\ The(n, "return").err =
                        <<"failed to upload ">> \o CallOf(n).path \o <<": ">>
                            \o The(n, "uploadret").err
                 /\ \E e \in BaseUploadErrs :
                        The(n, "uploadret").err = <<"failed to upload to S3: ">> \o e

C5_Witness ==
    \E n \in Calls : /\ Has(n, "uploadret") /\ The(n, "uploadret").err # Nil
                     /\ Has(n, "return") /\ CallOf(n).path = FooTxt

\* C6: once an invocation has returned an error, no further entry is handed
\* over and Upload is not invoked again, the only step left is main's fatal
\* exit; and no step ever removes or changes an object of the remote store.
C6_AbortOnFirstError ==
    [][/\ Failed => /\ trace' = trace
                    /\ received' = received
                    /\ s3Calls' = s3Calls
                    /\ todo = <<>>
                    /\ pc' = "fatal"
       /\ store \subseteq store']_vars

C6_Witness ==
    /\ Failed
    /\ pc = "fatal"
    /\ store # {}
    /\ \E f \in TreeFiles(tree) : \A i \in DOMAIN trace : trace[i].path # f

\* the files that were opened and not closed since
OpenFds ==
    {trace[i].fd : i \in {j \in DOMAIN trace : trace[j].ev = "open" /\ trace[j].fd # 0}}
        \ {trace[i].fd : i \in {j \in DOMAIN trace : trace[j].ev = "close"}}

\* C7: a file the callback opened is closed exactly once before the callback
\* returns, whether Upload succeeded or failed, and not before Upload has
\* returned; at most one file is open at a time and none once the walk is over.
C7_StreamsClosed ==
    /\ \A n \in Calls :
         (Has(n, "open") /\ The(n, "open").fd # 0) =>
            LET closes == {i \in DOMAIN trace :
                              trace[i].ev = "close" /\ trace[i].fd = The(n, "open").fd}
            IN  /\ Cardinality(closes) <= 1
                /\ \A i \in closes :
                     /\ trace[i].n = n
                     /\ \E j \in Idx(n, "uploadret") : j < i
                     /\ \A j \in Idx(n, "return") : i < j
                /\ Has(n, "return") => Cardinality(closes) = 1
    /\ Cardinality(OpenFds) <= 1
    /\ pc \in {"walk", "done", "fatal"} => OpenFds = {}

C7_Witness ==
    /\ pc = "fatal"
    /\ NumOpens >= 2
    /\ \E n \in Calls : /\ Has(n, "uploadret") /\ The(n, "uploadret").err # Nil
                        /\ Has(n, "close")

\* an access, open or upload error occurred
AnyError ==
    \E i \in DOMAIN trace :
        trace[i].ev \in {"call", "calldir", "open", "uploadret"} /\ trace[i].err # Nil

\* C8: a walk without access, open or upload error ends in success with
\* Upload invoked exactly once per file of the tree and for no directory.
C8_EveryFileOnce ==
    (haveCreds /\ pc \in {"done", "fatal"} /\ ~AnyError) =>
        /\ pc = "done"
        /\ {received[i].object.Path : i \in DOMAIN received} = TreeFiles(tree)
        /\ \A i, j \in DOMAIN received :
             received[i].object.Path = received[j].object.Path => i = j
        /\ Len(received) = Cardinality(TreeFiles(tree))
        /\ \A i \in DOMAIN received : received[i].object.Path \notin DirPaths
        /\ \A n \in Calls : IsFileCall(n) <=> Cardinality(Idx(n, "upload")) = 1
        /\ \A n \in Calls : ~IsFileCall(n) => ~Has(n, "upload")

C8_Witness ==
    /\ pc = "done"
    /\ ~AnyError
    /\ Len(received) = 3
    /\ SubData \in TreeFiles(tree)

\* C9: the body handed to the uploader is the opened file, nothing read from
\* it: read to the end it gives the bytes of the file, and so does the stored
\* object ("some body" for foo.txt).
C9_BodyUnconsumed ==
    /\ \A i \in DOMAIN received :
         LET o == received[i].object
         IN  /\ o.Body.pos = 0
             /\ ReadAll(o.Body) = Content(o.Path)
             /\ o.Path = FooTxt => ReadAll(o.Body) = SomeBody
             /\ o.Path = IndexJs => ReadAll(o.Body) = LetFoo
    /\ \A o \in store :
         /\ o.Bytes = Content(o.Key)
         /\ o.Key = FooTxt => o.Bytes = SomeBody

C9_Witness ==
    \E o \in store : o.Key = FooTxt /\ o.Bytes = SomeBody

\* the tag set main is to configure for an application version
ExpectedTagKeys == IF appVersion # "" THEN {AppVersionKey} ELSE {}

\* C10: the uploader is not modified once the walk has begun, and every
\* upload goes out with the same tag set (the app-version tag exactly when a
\* version was configured), ACL public-read, the configured bucket, and the
\* object's path and content type.
C10_TagsFixed ==
    /\ [](\A i \in DOMAIN s3Calls :
            LET in == s3Calls[i].input
            IN  /\ DOMAIN in.Metadata = ExpectedTagKeys
                /\ \A k \in DOMAIN in.Metadata : in.Metadata[k] = appVersion
                /\ in.Metadata = s3Calls[1].input.Metadata
                /\ in.ACL = "public-read"
                /\ in.Bucket = bucket
                /\ in.Key = received[i].object.Path
                /\ in.ContentType = received[i].object.ContentType)
    /\ [][pc # "main" => s3' = s3]_vars

C10_Witness ==
    /\ Len(s3Calls) >= 2
    /\ appVersion # ""
    /\ s3Calls[2].input.ContentType = "application/javascript"

====
